---- MODULE Spec2Model ----
(***************************************************************************)
(* hprof2flamegraph: the HPL converter (stackcollapse_hpl.py) and the      *)
(* HPROF converter (stackcollapse_hprof.py) as one state machine.          *)
(*                                                                         *)
(* Strings are sequences of one-character strings, so that slicing,        *)
(* replacing, joining, formatting and sorting are computed as Python       *)
(* computes them.  An optional value (None or a value) is the empty        *)
(* sequence or a one-element sequence.                                     *)
(***************************************************************************)
EXTENDS Integers, Sequences, FiniteSets, TLC

VARIABLES
    prog,           \* which script runs: "hpl" or "hprof"
    pc,             \* position in main: decode, fold, done, error, ...
    args,           \* the parsed command line flags
    hpl_file,       \* the records of the HPL file when the run is given a whole file,
                    \* None when the records are drawn as they are read
    fh,             \* parse_hpl: the file offset (fh.tell()), <<>> once closed
    nread,          \* parse_hpl: records read so far
    traces,         \* parse_hpl / main: the trace list
    methods,        \* parse_hpl / main: the Method table
    i,              \* main: traces folded so far
    folded_stack,   \* main: the folded stack of the last kept trace
    folded_stacks,  \* main: the aggregation map
    stderr,         \* the diagnostics written to sys.stderr
    out,            \* the lines printed to out
    err,            \* the exception or exit that ended the run
    content,        \* hprof main: the text of the dump, by its parts
    stacks,         \* hprof main: trace id -> stack
    counts          \* hprof main: trace id -> sample count, in insertion order

vars == <<prog, pc, args, hpl_file, fh, nread, traces, methods, i, folded_stack,
          folded_stacks, stderr, out, err, content, stacks, counts>>

hprofVars == <<content, stacks, counts>>
hplVars == <<hpl_file, fh, nread, traces, methods, i, folded_stack, folded_stacks, stderr>>

----------------------------------------------------------------------------
(* Bounds *)

MaxRecords == 4

----------------------------------------------------------------------------
(* Characters and strings *)

Ascii ==
    <<" ", "!", "QUOTE", "#", "$", "%", "&", "'", "(", ")", "*", "+", ",", "-", ".", "/",
      "0", "1", "2", "3", "4", "5", "6", "7", "8", "9", ":", ";", "<", "=", ">", "?",
      "@", "A", "B", "C", "D", "E", "F", "G", "H", "I", "J", "K", "L", "M", "N", "O",
      "P", "Q", "R", "S", "T", "U", "V", "W", "X", "Y", "Z", "[", "BACKSLASH", "]", "^", "_",
      "BACKQUOTE", "a", "b", "c", "d", "e", "f", "g", "h", "i", "j", "k", "l", "m", "n", "o",
      "p", "q", "r", "s", "t", "u", "v", "w", "x", "y", "z", "{", "|", "}", "~">>

Chars == {Ascii[k] : k \in 1..Len(Ascii)}

\* the code point of a character (three characters no name of this program holds
\* are spelled out in the table)
OrdTable == [c \in Chars |-> 31 + (CHOOSE k \in 1..Len(Ascii) : Ascii[k] = c)]

Ord(c) == OrdTable[c]

DigitChars == <<"0", "1", "2", "3", "4", "5", "6", "7", "8", "9">>

\* \w of the re module, on ASCII
IsWord(c) ==
    \/ c = "_"
    \/ Ord(c) >= Ord("0") /\ Ord(c) <= Ord("9")
    \/ Ord(c) >= Ord("A") /\ Ord(c) <= Ord("Z")
    \/ Ord(c) >= Ord("a") /\ Ord(c) <= Ord("z")

RECURSIVE NatToStr(_)
NatToStr(n) ==
    IF n < 10 THEN <<DigitChars[n + 1]>>
    ELSE NatToStr(n \div 10) \o <<DigitChars[(n % 10) + 1]>>

\* str(n), and '%s' % n, of an int
IntToStr(n) == IF n < 0 THEN <<"-">> \o NatToStr(-n) ELSE NatToStr(n)

\* reversed(xs)
Reverse(xs) == [k \in 1..Len(xs) |-> xs[Len(xs) + 1 - k]]

\* sep.join(xs)
RECURSIVE Join(_, _)
Join(xs, sep) ==
    IF xs = <<>> THEN <<>>
    ELSE IF Len(xs) = 1 THEN xs[1]
    ELSE xs[1] \o sep \o Join(Tail(xs), sep)

\* s.replace(a, b) for single characters
Replace(s, a, b) == [k \in 1..Len(s) |-> IF s[k] = a THEN b ELSE s[k]]

\* a < b on str: code points, left to right, a proper prefix first
StrLess(a, b) ==
    LET n == IF Len(a) < Len(b) THEN Len(a) ELSE Len(b)
        d == {k \in 1..n : a[k] # b[k]}
    IN  IF d = {} THEN Len(a) < Len(b)
        ELSE LET k == CHOOSE x \in d : \A y \in d : x <= y
             IN  Ord(a[k]) < Ord(b[k])

\* sorted(S) of a set (or the keys of a dict) of str
RECURSIVE sorted(_)
sorted(S) ==
    IF S = {} THEN <<>>
    ELSE LET m == CHOOSE x \in S : \A y \in S \ {x} : StrLess(x, y)
         IN  <<m>> \o sorted(S \ {m})

None == <<>>
Some(x) == <<x>>

\* d[k] = v on a dict
Put(d, k, v) == [x \in DOMAIN d \cup {k} |-> IF x = k THEN v ELSE d[x]]

EmptyDict == [x \in {} |-> 0]

----------------------------------------------------------------------------
(* stackcollapse_hpl.py: data *)

Method(id, file_name, class_name, method_name) ==
    [id |-> id, file_name |-> file_name, class_name |-> class_name,
     method_name |-> method_name]

Trace(thread_id, frame_count, frames) ==
    [thread_id |-> thread_id, frame_count |-> frame_count, frames |-> frames]

Frame(bci, line_no, method_id) ==
    [bci |-> bci, line_no |-> line_no, method_id |-> method_id]

AGENT_ERRORS ==
    <<
      <<"N", "o", " ", "J", "a", "v", "a", " ", "F", "r", "a", "m", "e", "s", "[", "E", "R", "R", "=", "0", "]">>,
      <<"N", "o", " ", "c", "l", "a", "s", "s", " ", "l", "o", "a", "d", "[", "E", "R", "R", "=", "-", "1", "]">>,
      <<"G", "C", " ", "A", "c", "t", "i", "v", "e", "[", "E", "R", "R", "=", "-", "2", "]">>,
      <<"U", "n", "k", "n", "o", "w", "n", " ", "n", "o", "t", " ", "J", "a", "v", "a", "[", "E", "R", "R", "=", "-", "3", "]">>,
      <<"N", "o", "t", " ", "w", "a", "l", "k", "a", "b", "l", "e", " ", "n", "o", "t", " ", "J", "a", "v", "a", "[", "E", "R", "R", "=", "-", "4", "]">>,
      <<"U", "n", "k", "n", "o", "w", "n", " ", "J", "a", "v", "a", "[", "E", "R", "R", "=", "-", "5", "]">>,
      <<"N", "o", "t", " ", "w", "a", "l", "k", "a", "b", "l", "e", " ", "J", "a", "v", "a", "[", "E", "R", "R", "=", "-", "6", "]">>,
      <<"U", "n", "k", "n", "o", "w", "n", " ", "s", "t", "a", "t", "e", "[", "E", "R", "R", "=", "-", "7", "]">>,
      <<"T", "h", "r", "e", "a", "d", " ", "e", "x", "i", "t", "[", "E", "R", "R", "=", "-", "8", "]">>,
      <<"D", "e", "o", "p", "t", "[", "E", "R", "R", "=", "-", "9", "]">>,
      <<"S", "a", "f", "e", "p", "o", "i", "n", "t", "[", "E", "R", "R", "=", "-", "1", "0", "]">>
    >>

ErrorClass == <<"/", "E", "r", "r", "o", "r", "/">>

\* the Method table before the first record is read
AgentMethods ==
    [id \in {-1 - index : index \in 0..(Len(AGENT_ERRORS) - 1)} |->
        Method(id, <<>>, ErrorClass, AGENT_ERRORS[-id])]

NoErr == [kind |-> "none", arg |-> 0, offset |-> 0]
Raised(kind, arg, offset) == [kind |-> kind, arg |-> arg, offset |-> offset]

----------------------------------------------------------------------------
(* The inputs the records of a stream are drawn from *)

\* (frame_count, thread_id) of the trace-start records: two threads with frames,
\* a known agent error, an agent error beyond the known ones
TraceStarts == {<<2, 2>>, <<2, 10>>, <<0, 2>>, <<-12, 10>>}
MethodIds == {1}
Bcis == {5}
LineNos == {-100, 0, 7}
Markers == {4}
FileNames == {<<"F">>}
ClassNames == {<<"L", "f", "o", "/", "b", "a", "/", "C", ";">>, <<"L", "D", ";">>}
MethodNames == {<<"m">>}

----------------------------------------------------------------------------
(* parse_hpl: one action per record read *)

\* the bytes of a length-prefixed string
HplStringSize(s) == 4 + Len(s)

Abs(n) == IF n < 0 THEN -n ELSE n

Fail(kind, arg, offset) ==
    /\ pc' = "error"
    /\ err' = Raised(kind, arg, offset)
    /\ fh' = <<>>

\* fh.read(1) returns nothing: the loop ends and the function returns
ReadEOF ==
    /\ prog = "hpl" /\ pc = "decode"
    /\ pc' = "fold"
    /\ fh' = <<>>
    /\ UNCHANGED <<hprofVars, hpl_file, prog, args, nread, traces, methods, i, folded_stack,
                   folded_stacks, stderr, out, err>>

\* marker 0 read as a record to pass over
ReadEndContinues ==
    /\ prog = "hpl" /\ pc = "decode" /\ nread < MaxRecords
    /\ nread' = nread + 1
    /\ fh' = Some(fh[1] + 1)
    /\ UNCHANGED <<hprofVars, hpl_file, prog, pc, args, traces, methods, i, folded_stack,
                   folded_stacks, stderr, out, err>>

\* marker 0
ReadEnd ==
    /\ prog = "hpl" /\ pc = "decode"
    /\ pc' = "fold"
    /\ fh' = <<>>
    /\ UNCHANGED <<hprofVars, hpl_file, prog, args, nread, traces, methods, i, folded_stack,
                   folded_stacks, stderr, out, err>>

\* marker 1
ReadTraceStart(frame_count, thread_id) ==
    /\ prog = "hpl" /\ pc = "decode" /\ nread < MaxRecords
    /\ nread' = nread + 1
    /\ IF frame_count > 0
       THEN /\ traces' = Append(traces, Trace(thread_id, frame_count, <<>>))
            /\ fh' = Some(fh[1] + 1 + 4 + 8)
            /\ UNCHANGED <<pc, err>>
       ELSE IF Abs(frame_count) > Len(AGENT_ERRORS)
            THEN \* Method() is called with two of its four fields
                 /\ Fail("TypeError", frame_count - 1, 0)
                 /\ UNCHANGED traces
            ELSE /\ traces' = Append(traces,
                        Trace(thread_id, 1, <<Frame(None, None, frame_count - 1)>>))
                 /\ fh' = Some(fh[1] + 1 + 4 + 8)
                 /\ UNCHANGED <<pc, err>>
    /\ UNCHANGED <<hprofVars, hpl_file, prog, args, methods, i, folded_stack, folded_stacks, stderr, out>>

\* traces[-1].frames.append(frame)
AppendFrame(frame, size) ==
    IF traces = <<>>
    THEN /\ Fail("IndexError", 0, 0)
         /\ UNCHANGED traces
    ELSE /\ traces' = [traces EXCEPT ![Len(traces)].frames = Append(@, frame)]
         /\ fh' = Some(fh[1] + 1 + size)
         /\ UNCHANGED <<pc, err>>

\* marker 2
ReadFrame(bci, method_id) ==
    /\ prog = "hpl" /\ pc = "decode" /\ nread < MaxRecords
    /\ nread' = nread + 1
    /\ AppendFrame(Frame(Some(bci), None, method_id), 4 + 8)
    /\ UNCHANGED <<hprofVars, hpl_file, prog, args, methods, i, folded_stack, folded_stacks, stderr, out>>

\* marker 21
ReadFullFrame(bci, line_no, method_id) ==
    /\ prog = "hpl" /\ pc = "decode" /\ nread < MaxRecords
    /\ nread' = nread + 1
    /\ AppendFrame(Frame(Some(bci), IF line_no < 0 THEN None ELSE Some(line_no), method_id),
                   4 + 4 + 8)
    /\ UNCHANGED <<hprofVars, hpl_file, prog, args, methods, i, folded_stack, folded_stacks, stderr, out>>

\* marker 3, the first declaration of a method id kept
ReadMethodFirstWins(method_id, file_name, class_name, method_name) ==
    /\ prog = "hpl" /\ pc = "decode" /\ nread < MaxRecords
    /\ nread' = nread + 1
    /\ methods' = IF method_id \in DOMAIN methods THEN methods
                  ELSE Put(methods, method_id,
                           Method(method_id, file_name, class_name, method_name))
    /\ fh' = Some(fh[1] + 1 + 8 + HplStringSize(file_name) + HplStringSize(class_name)
                        + HplStringSize(method_name))
    /\ UNCHANGED <<hprofVars, hpl_file, prog, pc, args, traces, i, folded_stack, folded_stacks, stderr, out, err>>

\* marker 3
ReadMethod(method_id, file_name, class_name, method_name) ==
    /\ prog = "hpl" /\ pc = "decode" /\ nread < MaxRecords
    /\ nread' = nread + 1
    /\ methods' = Put(methods, method_id,
                      Method(method_id, file_name, class_name, method_name))
    /\ fh' = Some(fh[1] + 1 + 8 + HplStringSize(file_name) + HplStringSize(class_name)
                        + HplStringSize(method_name))
    /\ UNCHANGED <<hprofVars, hpl_file, prog, pc, args, traces, i, folded_stack, folded_stacks, stderr, out, err>>

\* any other marker
ReadUnexpected(marker) ==
    /\ prog = "hpl" /\ pc = "decode"
    /\ Fail("Exception", marker, fh[1] + 1)
    /\ UNCHANGED <<hprofVars, hpl_file, prog, args, nread, traces, methods, i, folded_stack,
                   folded_stacks, stderr, out>>

\* fh.read() returns fewer bytes than the record needs: struct.unpack raises
ReadTruncated ==
    /\ prog = "hpl" /\ pc = "decode"
    /\ Fail("struct.error", 0, 0)
    /\ UNCHANGED <<hprofVars, hpl_file, prog, args, nread, traces, methods, i, folded_stack,
                   folded_stacks, stderr, out>>

----------------------------------------------------------------------------
(* Name formatting *)

\* the positions of the '.' of s
Dots(s) == {k \in 1..Len(s) : s[k] = "."}

MaxOf(S) == CHOOSE x \in S : \A y \in S : y <= x

\* re.sub(r'(\w)\w*', r'\1', s): every run of word characters keeps its first
ShortenRuns(s) ==
    LET keep(k) == ~(IsWord(s[k]) /\ k > 1 /\ IsWord(s[k - 1]))
        kept == SelectSeq([k \in 1..Len(s) |-> <<s[k], keep(k)>>], LAMBDA p : p[2])
    IN  [k \in 1..Len(kept) |-> kept[k][1]]

\* re.match(r'(?P<package>.*\.)(?P<remainder>[^.]+\.[^.]+)$', class_name)
abbreviate_package(class_name) ==
    LET dots == Dots(class_name)
    IN  IF Cardinality(dots) < 2 THEN class_name
        ELSE LET d2 == MaxOf(dots)
                 d1 == MaxOf(dots \ {d2})
             IN  IF d2 = Len(class_name) \/ d1 + 1 = d2 THEN class_name
                 ELSE ShortenRuns(SubSeq(class_name, 1, d1))
                          \o SubSeq(class_name, d1 + 1, Len(class_name))

get_method_name(method, shorten_pkgs) ==
    LET unwrapped == Replace(SubSeq(method.class_name, 2, Len(method.class_name) - 1),
                             "/", ".")
        class_name == IF shorten_pkgs THEN abbreviate_package(unwrapped) ELSE unwrapped
    IN  class_name \o <<".">> \o method.method_name

\* the truth value of frame.line_no: neither None nor 0
Truthy(line_no) == line_no # None /\ line_no[1] # 0

format_frame(frame, method, discard_lineno, shorten_pkgs) ==
    LET formatted_frame == get_method_name(method, shorten_pkgs)
    IN  IF ~discard_lineno /\ Truthy(frame.line_no)
        THEN formatted_frame \o <<":">> \o IntToStr(frame.line_no[1])
        ELSE formatted_frame

----------------------------------------------------------------------------
(* main of stackcollapse_hpl.py *)

\* the flag test forgotten: every missing method skips the trace
LookupEndSkipsAlways(frame) ==
    IF frame.method_id \notin DOMAIN methods THEN "skipped" ELSE "found"

\* 'not frame.method_id in methods' read as 'frame.method_id in methods'
LookupEndInverted(frame) ==
    IF args.skip_trace_on_missing_frame /\ frame.method_id \in DOMAIN methods
    THEN "skipped"
    ELSE IF frame.method_id \notin DOMAIN methods THEN "KeyError"
    ELSE "found"

\* how the body of the inner loop ends for a frame: the trace is skipped, or
\* methods[frame.method_id] raises, or the method is found
LookupEnd(frame) ==
    IF args.skip_trace_on_missing_frame /\ frame.method_id \notin DOMAIN methods
    THEN "skipped"
    ELSE IF frame.method_id \notin DOMAIN methods THEN "KeyError"
    ELSE "found"

\* the inner loop over trace.frames, from frame k on, frames holding the
\* formatted frames so far: how it ends, with what, and on which method id
RECURSIVE FormatFrames(_, _, _)
FormatFrames(trace, k, frames) ==
    IF k > Len(trace.frames) THEN [end |-> "kept", frames |-> frames, method_id |-> 0]
    ELSE LET frame == trace.frames[k]
         IN  IF LookupEnd(frame) # "found"
             THEN [end |-> LookupEnd(frame), frames |-> frames,
                   method_id |-> frame.method_id]
             ELSE FormatFrames(trace, k + 1,
                      Append(frames, format_frame(frame, methods[frame.method_id],
                                                  args.discard_lineno, args.shorten_pkgs)))

ThreadFrame(thread_id) == <<"T", "h", "r", "e", "a", "d", " ">> \o IntToStr(thread_id)

\* reversed() forgotten
StackOfUnreversed(trace, frames) ==
    IF ~args.discard_thread THEN Append(frames, ThreadFrame(trace.thread_id)) ELSE frames

\* discard_thread taking the last frame off instead of adding nothing
StackOfDiscardPops(trace, frames) ==
    Reverse(IF ~args.discard_thread THEN Append(frames, ThreadFrame(trace.thread_id))
            ELSE SubSeq(frames, 1, Len(frames) - 1))

\* the frames of a kept trace, as they are joined
StackOf(trace, frames) ==
    Reverse(IF ~args.discard_thread THEN Append(frames, ThreadFrame(trace.thread_id))
            ELSE frames)

\* '= 1' for '+= 1'
IncrementOverwrites(d, k) == Put(d, k, 1)

\* folded_stacks[folded_stack] += 1 on a defaultdict(int)
Increment(d, k) == Put(d, k, IF k \in DOMAIN d THEN d[k] + 1 ELSE 1)

\* one iteration of the loop over traces
FoldTrace ==
    /\ prog = "hpl" /\ pc = "fold" /\ i < Len(traces)
    /\ LET trace == traces[i + 1]
           r == FormatFrames(trace, 1, <<>>)
       IN  CASE r.end = "KeyError" ->
                    /\ pc' = "error"
                    /\ err' = Raised("KeyError", r.method_id, 0)
                    /\ UNCHANGED <<i, folded_stack, folded_stacks, stderr>>
             [] r.end = "skipped" ->
                    /\ stderr' = Append(stderr, r.method_id)
                    /\ i' = i + 1
                    /\ UNCHANGED <<pc, err, folded_stack, folded_stacks>>
             [] r.end = "kept" ->
                    /\ folded_stack' = Join(StackOf(trace, r.frames), <<";">>)
                    /\ folded_stacks' = Increment(folded_stacks, folded_stack')
                    /\ i' = i + 1
                    /\ UNCHANGED <<pc, err, stderr>>
    /\ UNCHANGED <<hprofVars, hpl_file, prog, args, fh, nread, traces, methods, out>>

\* "%s %s" % (folded_stack, sample_count)
Line(stack, sample_count) == stack \o <<" ">> \o IntToStr(sample_count)

\* sorted(folded_stacks, reverse=True)
LinesDescending(d) ==
    LET keys == Reverse(sorted(DOMAIN d))
    IN  [k \in 1..Len(keys) |-> Line(keys[k], d[keys[k]])]

\* the lines of the loop over sorted(folded_stacks)
Lines(d) ==
    LET keys == sorted(DOMAIN d)
    IN  [k \in 1..Len(keys) |-> Line(keys[k], d[keys[k]])]

\* the loop over sorted(folded_stacks), and return 0
Emit ==
    /\ prog = "hpl" /\ pc = "fold" /\ i = Len(traces)
    /\ out' = Lines(folded_stacks)
    /\ pc' = "done"
    /\ UNCHANGED <<hprofVars, hpl_file, prog, args, fh, nread, traces, methods, i, folded_stack,
                   folded_stacks, stderr, err>>

----------------------------------------------------------------------------
(* stackcollapse_hprof.py.  The dump is held by the parts the regular      *)
(* expressions of the script take from it: whether it starts with the      *)
(* header, whether it holds the tracing marker, its TRACE blocks (id,      *)
(* optional thread id, stack lines as start(file:line)) and the rows       *)
(* (count, trace) of its CPU SAMPLES section, if it has one.               *)

UnknownLine == <<"U", "n", "k", "n", "o", "w", "n", " ", "l", "i", "n", "e">>
EmptySentinel == <<"<", "e", "m", "p", "t", "y", ">">>

RawLine(start, file, line) == [start |-> start, file |-> file, line |-> line]

TraceIds == {"300", "301"}
HprofThreadIds == {<<"7">>}
StackBodies ==
    { <<RawLine(EmptySentinel, <<>>, <<>>)>>,
      <<RawLine(<<"j", "a", ".", "l", "a", ".", "C", ".", "d">>, <<"C", ".", "j", "a", "v", "a">>, UnknownLine),
        RawLine(<<"j", "a", ".", "l", "a", ".", "C", ".", "e">>, <<"C", ".", "j", "a", "v", "a">>, <<"7", "9", "1">>)>> }
SampleCounts == {<<"8">>, <<"9">>}

MaxBlocks == 2
MaxRows == 2

SeqsUpTo(S, n) == UNION {[1..k -> S] : k \in 0..n}

\* the TRACE blocks of a dump: those of trace 300 name their thread, those of
\* trace 301 do not
Blocks ==
    {b \in [trace_id : TraceIds, thread_id : {None} \cup {Some(t) : t \in HprofThreadIds},
            stack : StackBodies] : (b.thread_id = None) <=> (b.trace_id = "301")}
\* the rows of a CPU SAMPLES section: trace 300 is counted 8 times, trace 301 9 times
Rows == {r \in [count : SampleCounts, trace : TraceIds] : (r.count = <<"8">>) <=> (r.trace = "300")}

Contents ==
    [header : BOOLEAN, tracing : BOOLEAN, blocks : SeqsUpTo(Blocks, MaxBlocks),
     samples : {None} \cup {Some(rows) : rows \in SeqsUpTo(Rows, MaxRows) \ {<<>>}}]

header_match(c) == c.header

is_tracing(c) == c.tracing

remove_unknown_lineno(stack_element, discard_lineno) ==
    IF stack_element.line = UnknownLine THEN stack_element.start
    ELSE IF discard_lineno THEN stack_element.start
    ELSE stack_element.start \o <<":">> \o stack_element.line

\* abbreviate_package of stackcollapse_hprof.py: the same two expressions
hprof_abbreviate_package(stack_line) == abbreviate_package(stack_line)

process_stack(stack, discard_lineno, shorten_pkgs) ==
    LET lines == [k \in 1..Len(stack) |-> remove_unknown_lineno(stack[k], discard_lineno)]
    IN  IF shorten_pkgs THEN [k \in 1..Len(lines) |-> hprof_abbreviate_package(lines[k])]
        ELSE lines

\* "<empty>" in match_object.group('stack')
HasEmptySentinel(stack) == \E k \in 1..Len(stack) : stack[k].start = EmptySentinel

HprofThreadFrame(thread_id) == <<"T", "h", "r", "e", "a", "d", " ">> \o thread_id

\* the loop over the TRACE blocks, from block k on
RECURSIVE GetStacksFrom(_, _, _, _, _, _)
GetStacksFrom(blocks, k, acc, discard_lineno, discard_thread, shorten_pkgs) ==
    IF k > Len(blocks) THEN acc
    ELSE LET b == blocks[k]
             stack == process_stack(b.stack, discard_lineno, shorten_pkgs)
             full == IF b.thread_id # None /\ ~discard_thread
                     THEN Append(stack, HprofThreadFrame(b.thread_id[1]))
                     ELSE stack
         IN  GetStacksFrom(blocks, k + 1,
                 IF HasEmptySentinel(b.stack) THEN acc ELSE Put(acc, b.trace_id, full),
                 discard_lineno, discard_thread, shorten_pkgs)

get_stacks(c, discard_lineno, discard_thread, shorten_pkgs) ==
    GetStacksFrom(c.blocks, 1, EmptyDict, discard_lineno, discard_thread, shorten_pkgs)

\* counts[trace] = count on a dict that keeps the order of first insertion
PutOrdered(d, trace, count) ==
    IF \E k \in 1..Len(d) : d[k].trace = trace
    THEN [k \in 1..Len(d) |-> IF d[k].trace = trace THEN [d[k] EXCEPT !.count = count]
                               ELSE d[k]]
    ELSE Append(d, [trace |-> trace, count |-> count])

RECURSIVE CountsFrom(_, _, _)
CountsFrom(rows, k, acc) ==
    IF k > Len(rows) THEN acc
    ELSE CountsFrom(rows, k + 1, PutOrdered(acc, rows[k].trace, rows[k].count))

get_counts(c) == IF c.samples = None THEN <<>> ELSE CountsFrom(c.samples[1], 1, <<>>)

\* the ids of the counts that have no stack: stacks[id] raises on the first
MissingIds(st, cn) == {k \in 1..Len(cn) : cn[k].trace \notin DOMAIN st}

\* reversed() forgotten
to_flamegraph_unreversed(st, cn) ==
    [k \in 1..Len(cn) |-> Join(st[cn[k].trace], <<";">>) \o <<" ">> \o cn[k].count]

to_flamegraph(st, cn) ==
    [k \in 1..Len(cn) |-> Join(Reverse(st[cn[k].trace]), <<";">>) \o <<" ">> \o cn[k].count]

Exit(message) ==
    /\ pc' = "error"
    /\ err' = Raised(message, 0, 0)

\* the two tests in the other order
CheckHeaderAfterTracing ==
    /\ prog = "hprof" /\ pc = "header"
    /\ IF is_tracing(content[1]) THEN Exit("exit: CPU tracing is not supported")
       ELSE IF ~header_match(content[1]) THEN Exit("exit: not an hprof file")
       ELSE pc' = "tracing" /\ UNCHANGED err
    /\ UNCHANGED <<hplVars, prog, args, out, content, stacks, counts>>

CheckHeader ==
    /\ prog = "hprof" /\ pc = "header"
    /\ IF ~header_match(content[1]) THEN Exit("exit: not an hprof file")
       ELSE pc' = "tracing" /\ UNCHANGED err
    /\ UNCHANGED <<hplVars, prog, args, out, content, stacks, counts>>

CheckTracing ==
    /\ prog = "hprof" /\ pc = "tracing"
    /\ IF is_tracing(content[1]) THEN Exit("exit: CPU tracing is not supported")
       ELSE pc' = "stacks" /\ UNCHANGED err
    /\ UNCHANGED <<hplVars, prog, args, out, content, stacks, counts>>

GetStacks ==
    /\ prog = "hprof" /\ pc = "stacks"
    /\ stacks' = get_stacks(content[1], args.discard_lineno, args.discard_thread,
                            args.shorten_pkgs)
    /\ IF DOMAIN stacks' = {} THEN Exit("exit: Failed to get TRACE")
       ELSE pc' = "counts" /\ UNCHANGED err
    /\ UNCHANGED <<hplVars, prog, args, out, content, counts>>

GetCounts ==
    /\ prog = "hprof" /\ pc = "counts"
    /\ counts' = get_counts(content[1])
    /\ IF counts' = <<>> THEN Exit("exit: Failed to get samples")
       ELSE pc' = "flamegraph" /\ UNCHANGED err
    /\ UNCHANGED <<hplVars, prog, args, out, content, stacks>>

\* the loop printing to_flamegraph(stacks, counts), and return 0
PrintFlamegraph ==
    /\ prog = "hprof" /\ pc = "flamegraph"
    /\ LET missing == MissingIds(stacks, counts)
       IN  IF missing # {}
           THEN /\ pc' = "error"
                /\ err' = Raised("KeyError",
                                 counts[CHOOSE k \in missing : \A j \in missing : k <= j].trace, 0)
                /\ UNCHANGED out
           ELSE /\ out' = to_flamegraph(stacks, counts)
                /\ pc' = "done"
                /\ UNCHANGED err
    /\ UNCHANGED <<hplVars, prog, args, content, stacks, counts>>

----------------------------------------------------------------------------
(* The runs *)

HplArgs ==
    [discard_lineno : BOOLEAN, discard_thread : BOOLEAN, shorten_pkgs : BOOLEAN,
     skip_trace_on_missing_frame : BOOLEAN]

InitHpl ==
    /\ prog = "hpl"
    /\ pc = "decode"
    /\ args \in HplArgs
    /\ hpl_file = None
    /\ fh = Some(0)
    /\ nread = 0
    /\ traces = <<>>
    /\ methods = AgentMethods
    /\ i = 0
    /\ folded_stack = <<>>
    /\ folded_stacks = EmptyDict
    /\ stderr = <<>>
    /\ out = <<>>
    /\ err = NoErr
    /\ content = None
    /\ stacks = EmptyDict
    /\ counts = <<>>

HprofArgs == [discard_lineno : BOOLEAN, discard_thread : BOOLEAN, shorten_pkgs : BOOLEAN]

InitHprof ==
    /\ prog = "hprof"
    /\ pc = "header"
    /\ args \in HprofArgs
    /\ content \in {Some(c) : c \in Contents}
    /\ stacks = EmptyDict
    /\ counts = <<>>
    /\ hpl_file = None
    /\ fh = <<>>
    /\ nread = 0
    /\ traces = <<>>
    /\ methods = EmptyDict
    /\ i = 0
    /\ folded_stack = <<>>
    /\ folded_stacks = EmptyDict
    /\ stderr = <<>>
    /\ out = <<>>
    /\ err = NoErr

Init == InitHpl \/ InitHprof

Decode ==
    \/ ReadEOF
    \/ ReadEnd
    \/ \E start \in TraceStarts : ReadTraceStart(start[1], start[2])
    \/ \E bci \in Bcis, method_id \in MethodIds : ReadFrame(bci, method_id)
    \/ \E bci \in Bcis, line_no \in LineNos, method_id \in MethodIds :
            ReadFullFrame(bci, line_no, method_id)
    \/ \E method_id \in MethodIds, file_name \in FileNames, class_name \in ClassNames,
          method_name \in MethodNames :
            ReadMethod(method_id, file_name, class_name, method_name)
    \/ \E marker \in Markers : ReadUnexpected(marker)

Hprof == CheckHeader \/ CheckTracing \/ GetStacks \/ GetCounts \/ PrintFlamegraph

Next == Decode \/ FoldTrace \/ Emit \/ Hprof

Spec == Init /\ [][Next]_vars

----------------------------------------------------------------------------
(* A run of stackcollapse_hpl.py on a whole file: the records are fixed    *)
(* before the first is read, the bytes after an end marker included.       *)

EndRecord == [marker |-> 0]

TraceStartRecord(frame_count, thread_id) ==
    [marker |-> 1, frame_count |-> frame_count, thread_id |-> thread_id]

FrameRecord(bci, method_id) == [marker |-> 2, bci |-> bci, method_id |-> method_id]

FullFrameRecord(bci, line_no, method_id) ==
    [marker |-> 21, bci |-> bci, line_no |-> line_no, method_id |-> method_id]

MethodRecord(method_id, file_name, class_name, method_name) ==
    [marker |-> 3, method_id |-> method_id, file_name |-> file_name,
     class_name |-> class_name, method_name |-> method_name]

OtherRecord(marker) == [marker |-> marker]

\* a record of which the file holds the marker byte and nothing more
CutRecord(marker) == [marker |-> marker, cut |-> TRUE]

IsCut(record) == "cut" \in DOMAIN record

\* (frame_count, thread_id) of the trace-start records of a file: a trace of one
\* frame, the last agent error the Method table is not prepared for
FileTraceStarts == {<<1, 2>>, <<-11, 10>>}
FileLineNos == {7}
CutMarkers == {1}

FileRecords ==
    {EndRecord}
        \cup {TraceStartRecord(start[1], start[2]) : start \in FileTraceStarts}
        \cup {FrameRecord(bci, method_id) : bci \in Bcis, method_id \in MethodIds}
        \cup {FullFrameRecord(bci, line_no, method_id) :
                  bci \in Bcis, line_no \in FileLineNos, method_id \in MethodIds}
        \cup {MethodRecord(method_id, file_name, class_name, method_name) :
                  method_id \in MethodIds, file_name \in FileNames,
                  class_name \in ClassNames, method_name \in MethodNames}
        \cup {OtherRecord(marker) : marker \in Markers}
        \cup {CutRecord(marker) : marker \in CutMarkers}

Files == SeqsUpTo(FileRecords, MaxRecords)

\* parse_hpl as a function of the records of a file, from record k on, ts and ms
\* the traces and methods so far: what it returns, or that it raised
RECURSIVE parse_hpl(_, _, _, _)
parse_hpl(records, k, ts, ms) ==
    LET returned == [traces |-> ts, methods |-> ms, raised |-> FALSE]
        raised == [traces |-> <<>>, methods |-> EmptyDict, raised |-> TRUE]
    IN  IF k > Len(records) THEN returned
        ELSE LET r == records[k]
             IN  IF IsCut(r) THEN raised
                 ELSE IF r.marker = 0 THEN returned
                 ELSE IF r.marker = 1
                      THEN IF r.frame_count > 0
                           THEN parse_hpl(records, k + 1,
                                    Append(ts, Trace(r.thread_id, r.frame_count, <<>>)), ms)
                           ELSE IF Abs(r.frame_count) > Len(AGENT_ERRORS) THEN raised
                           ELSE parse_hpl(records, k + 1,
                                    Append(ts, Trace(r.thread_id, 1,
                                                     <<Frame(None, None, r.frame_count - 1)>>)),
                                    ms)
                 ELSE IF r.marker \in {2, 21}
                      THEN IF ts = <<>> THEN raised
                           ELSE LET line_no == IF r.marker = 2 \/ r.line_no < 0 THEN None
                                               ELSE Some(r.line_no)
                                    frame == Frame(Some(r.bci), line_no, r.method_id)
                                IN  parse_hpl(records, k + 1,
                                        [ts EXCEPT ![Len(ts)].frames = Append(@, frame)], ms)
                 ELSE IF r.marker = 3
                      THEN parse_hpl(records, k + 1, ts,
                               Put(ms, r.method_id,
                                   Method(r.method_id, r.file_name, r.class_name,
                                          r.method_name)))
                 ELSE raised

\* the next record of the file is this one
NextRecord(record) ==
    /\ hpl_file # None
    /\ nread < Len(hpl_file[1])
    /\ hpl_file[1][nread + 1] = record

\* one turn of the loop of parse_hpl on the file
DecodeFile ==
    \/ hpl_file # None /\ nread = Len(hpl_file[1]) /\ ReadEOF
    \/ NextRecord(EndRecord) /\ ReadEnd
    \/ \E start \in FileTraceStarts :
            NextRecord(TraceStartRecord(start[1], start[2]))
                /\ ReadTraceStart(start[1], start[2])
    \/ \E bci \in Bcis, method_id \in MethodIds :
            NextRecord(FrameRecord(bci, method_id)) /\ ReadFrame(bci, method_id)
    \/ \E bci \in Bcis, line_no \in FileLineNos, method_id \in MethodIds :
            NextRecord(FullFrameRecord(bci, line_no, method_id))
                /\ ReadFullFrame(bci, line_no, method_id)
    \/ \E method_id \in MethodIds, file_name \in FileNames, class_name \in ClassNames,
          method_name \in MethodNames :
            NextRecord(MethodRecord(method_id, file_name, class_name, method_name))
                /\ ReadMethod(method_id, file_name, class_name, method_name)
    \/ \E marker \in Markers : NextRecord(OtherRecord(marker)) /\ ReadUnexpected(marker)
    \/ \E marker \in CutMarkers : NextRecord(CutRecord(marker)) /\ ReadTruncated

\* the flags of the runs on a whole file
FileArgs ==
    {a \in HplArgs : ~a.discard_lineno /\ ~a.discard_thread /\ ~a.shorten_pkgs}

InitFile ==
    /\ prog = "hpl"
    /\ pc = "decode"
    /\ args \in FileArgs
    /\ hpl_file \in {Some(f) : f \in Files}
    /\ fh = Some(0)
    /\ nread = 0
    /\ traces = <<>>
    /\ methods = AgentMethods
    /\ i = 0
    /\ folded_stack = <<>>
    /\ folded_stacks = EmptyDict
    /\ stderr = <<>>
    /\ out = <<>>
    /\ err = NoErr
    /\ content = None
    /\ stacks = EmptyDict
    /\ counts = <<>>

NextFile == DecodeFile \/ FoldTrace \/ Emit

SpecFile == InitFile /\ [][NextFile]_vars

----------------------------------------------------------------------------
(* Reading the output back, and the traces of a run *)

MinOf(S) == CHOOSE x \in S : \A y \in S : x <= y

LastSpace(line) == MaxOf({k \in 1..Len(line) : line[k] = " "})

\* the folded stack and the sample count of an output line
KeyOf(line) == SubSeq(line, 1, LastSpace(line) - 1)

RECURSIVE StrToNat(_)
StrToNat(s) ==
    IF s = <<>> THEN 0
    ELSE 10 * StrToNat(SubSeq(s, 1, Len(s) - 1)) + (Ord(s[Len(s)]) - Ord("0"))

CountOf(line) == StrToNat(SubSeq(line, LastSpace(line) + 1, Len(line)))

RECURSIVE SumCounts(_)
SumCounts(lines) == IF lines = <<>> THEN 0 ELSE CountOf(lines[1]) + SumCounts(Tail(lines))

HasAllMethods(trace) ==
    \A k \in 1..Len(trace.frames) : trace.frames[k].method_id \in DOMAIN methods

\* the traces with a frame whose method id is not in the Method table
MissingTraces == {k \in 1..Len(traces) : ~HasAllMethods(traces[k])}

FirstMissingId(trace) ==
    trace.frames[MinOf({k \in 1..Len(trace.frames) :
                            trace.frames[k].method_id \notin DOMAIN methods})].method_id

DecodeFailed ==
    pc = "error" /\ err.kind \in {"Exception", "TypeError", "IndexError", "struct.error"}

HplDone == prog = "hpl" /\ pc = "done"

\* trace i has just been folded and kept
FoldedKept == prog = "hpl" /\ pc \in {"fold", "done", "error"} /\ i >= 1
                  /\ ~DecodeFailed /\ HasAllMethods(traces[i])

\* the formatted frames of a trace, root first, under a Method table
RootFirst(trace, meths) ==
    [k \in 1..Len(trace.frames) |->
        LET frame == trace.frames[Len(trace.frames) + 1 - k]
        IN  format_frame(frame, meths[frame.method_id], args.discard_lineno,
                         args.shorten_pkgs)]

\* the folded stack of a trace in a default run: the Thread element, then the frames
DefaultParts(trace, meths) == <<ThreadFrame(trace.thread_id)>> \o RootFirst(trace, meths)

----------------------------------------------------------------------------
(* C1: when an HPL run ends, the sample counts of the output lines sum to  *)
(* the number of decoded traces minus the traces dropped for a missing     *)
(* frame: every kept trace counts once.                                    *)

Dropped == IF args.skip_trace_on_missing_frame THEN MissingTraces ELSE {}

\* C1: the counts of the output lines sum to the decoded traces less the dropped ones
C1_SamplesConserved ==
    HplDone => SumCounts(out) = Len(traces) - Cardinality(Dropped)

C1_Witness ==
    /\ HplDone
    /\ Dropped # {}
    /\ \E j \in 1..Len(out) : CountOf(out[j]) >= 2

----------------------------------------------------------------------------
(* C2: with discard_thread false, the folded stack of a kept trace is      *)
(* 'Thread <thread_id>' followed by the formatted frames in the reverse of *)
(* their stored order, joined with ';'; every output line is such a stack. *)

C2_ThreadThenRootFirst ==
    /\ (FoldedKept /\ ~args.discard_thread)
          => folded_stack = Join(DefaultParts(traces[i], methods), <<";">>)
    /\ (HplDone /\ ~args.discard_thread)
          => \A j \in 1..Len(out) :
                \E k \in 1..Len(traces) :
                    /\ HasAllMethods(traces[k])
                    /\ KeyOf(out[j]) = Join(DefaultParts(traces[k], methods), <<";">>)

C2_Witness ==
    /\ FoldedKept /\ ~args.discard_thread
    /\ Len(traces[i].frames) = 2
    /\ RootFirst(traces[i], methods)[1] # RootFirst(traces[i], methods)[2]

----------------------------------------------------------------------------
(* C3: without skip_trace_on_missing_frame, a decoded input with a frame   *)
(* whose method id is not in the Method table never reaches the end of the *)
(* run and never prints a line; the run stops in the first such trace with *)
(* a KeyError naming the method id.                                        *)

C3_MissingMethodAborts ==
    (/\ prog = "hpl" /\ pc # "decode" /\ ~DecodeFailed
     /\ ~args.skip_trace_on_missing_frame
     /\ MissingTraces # {})
        => /\ out = <<>>
           /\ pc # "done"
           /\ i < MinOf(MissingTraces)
           /\ pc = "error" =>
                 /\ err.kind = "KeyError"
                 /\ i = MinOf(MissingTraces) - 1
                 /\ err.arg = FirstMissingId(traces[MinOf(MissingTraces)])

C3_Witness ==
    /\ prog = "hpl" /\ pc = "error" /\ err.kind = "KeyError"
    /\ i >= 1
    /\ DOMAIN folded_stacks # {}
    /\ out = <<>>

----------------------------------------------------------------------------
(* C4: with skip_trace_on_missing_frame, exactly the traces with a frame   *)
(* whose method id is not in the Method table are dropped, and the output  *)
(* is the output of the run with those methods declared, less the dropped  *)
(* traces: counts reduced, lines left without a sample removed, the order  *)
(* of the remaining lines kept.                                            *)

\* every method id a frame refers to
ReferencedIds ==
    UNION {{traces[k].frames[j].method_id : j \in 1..Len(traces[k].frames)} :
              k \in 1..Len(traces)}

\* the Method table of the run with the missing methods declared
CompleteMethods ==
    [id \in DOMAIN methods \cup ReferencedIds |->
        IF id \in DOMAIN methods THEN methods[id]
        ELSE Method(id, <<"F">>, <<"L", "X", ";">>, <<"x">>)]

\* the folded stack of a trace under a Method table and the flags of the run
FullStack(trace, meths) ==
    Join(IF args.discard_thread THEN RootFirst(trace, meths) ELSE DefaultParts(trace, meths),
         <<";">>)

SamplesOf(ks, stack) ==
    Cardinality({k \in ks : FullStack(traces[k], CompleteMethods) = stack})

\* the lines of the complete run, each less the samples of the dropped traces
CompleteLessDropped ==
    LET all == 1..Len(traces)
        keys == sorted({FullStack(traces[k], CompleteMethods) : k \in all})
        less == [j \in 1..Len(keys) |->
                    [key |-> keys[j],
                     n |-> SamplesOf(all, keys[j]) - SamplesOf(MissingTraces, keys[j])]]
        left == SelectSeq(less, LAMBDA l : l.n > 0)
    IN  [j \in 1..Len(left) |-> Line(left[j].key, left[j].n)]

MissingNotices ==
    LET dropped == SelectSeq(traces, LAMBDA t : ~HasAllMethods(t))
    IN  [j \in 1..Len(dropped) |-> FirstMissingId(dropped[j])]

\* C4: one notice per trace with a missing method, and the output is the complete
\* run's less the dropped traces
C4_SkipDropsExactlyMissing ==
    (HplDone /\ args.skip_trace_on_missing_frame)
        => /\ stderr = MissingNotices
           /\ out = CompleteLessDropped

C4_Witness ==
    /\ HplDone /\ args.skip_trace_on_missing_frame
    /\ MissingTraces # {}
    /\ Len(out) >= 2
    /\ \E k \in MissingTraces : Len(traces[k].frames) = 2

----------------------------------------------------------------------------
(* C5: with shorten_packages, the display string of a frame has every      *)
(* package segment of the class collapsed to its first character, class    *)
(* and method names untouched (foo.bar.Class, method -> f.b.Class.method); *)
(* a class without a package is displayed unchanged.                       *)

\* every segment before the last two of a dotted name cut to its first character
CollapsePackages(name) ==
    LET dots == Dots(name)
    IN  IF Cardinality(dots) < 2 THEN name
        ELSE LET d1 == MaxOf(dots \ {MaxOf(dots)})
                 kept == SelectSeq([k \in 1..d1 |->
                                       <<name[k], name[k] = "." \/ k = 1 \/ name[k - 1] = ".">>],
                                   LAMBDA q : q[2])
             IN  [k \in 1..Len(kept) |-> kept[k][1]] \o SubSeq(name, d1 + 1, Len(name))

Unwrapped(method) ==
    Replace(SubSeq(method.class_name, 2, Len(method.class_name) - 1), "/", ".")

LineSuffix(frame) ==
    IF ~args.discard_lineno /\ Truthy(frame.line_no)
    THEN <<":">> \o IntToStr(frame.line_no[1]) ELSE <<>>

\* the frames of trace i, root first, as the claim displays them
C5_Displayed ==
    [k \in 1..Len(traces[i].frames) |->
        LET frame == traces[i].frames[Len(traces[i].frames) + 1 - k]
            method == methods[frame.method_id]
        IN  CollapsePackages(Unwrapped(method) \o <<".">> \o method.method_name)
                \o LineSuffix(frame)]

\* C5: with shorten_packages every frame is displayed with all its package segments
\* collapsed
C5_PackagesCollapsed ==
    (FoldedKept /\ args.shorten_pkgs /\ args.discard_thread)
        => folded_stack = Join(C5_Displayed, <<";">>)

----------------------------------------------------------------------------
(* C6: a formatted HPL frame ends with ':<line>' exactly when the frame's  *)
(* decoded line number is present and discard_line_number is false, every  *)
(* non-negative line number of a marker 21 record being present.           *)

C6_Displayed ==
    [k \in 1..Len(traces[i].frames) |->
        LET frame == traces[i].frames[Len(traces[i].frames) + 1 - k]
        IN  get_method_name(methods[frame.method_id], args.shorten_pkgs)
                \o (IF frame.line_no # None /\ ~args.discard_lineno
                    THEN <<":">> \o IntToStr(frame.line_no[1]) ELSE <<>>)]

\* C6: a frame carries ':<line>' exactly when its line number is present and not
\* discarded
C6_SuffixIffLinePresent ==
    (FoldedKept /\ args.discard_thread) => folded_stack = Join(C6_Displayed, <<";">>)

----------------------------------------------------------------------------
(* C7: the stack a kept trace gives with discard_thread set is the stack   *)
(* it gives by default less exactly its 'Thread <id>' element, in the HPL  *)
(* converter and in the HPROF converter (where only a block with a thread  *)
(* id has the element).                                                    *)

Front(xs) == SubSeq(xs, 1, Len(xs) - 1)

\* the block a trace id's stack comes from: the last one that is not empty
BlockOf(id) ==
    LET c == content[1]
    IN  c.blocks[MaxOf({k \in 1..Len(c.blocks) :
                           c.blocks[k].trace_id = id /\ ~HasEmptySentinel(c.blocks[k].stack)})]

\* the stacks of the same dump in a default run
DefaultStacks == get_stacks(content[1], args.discard_lineno, FALSE, args.shorten_pkgs)

\* C7: the stack under discard_thread is the default stack less its Thread element
C7_DiscardThreadRemovesOnlyThread ==
    /\ FoldedKept
          => LET parts == DefaultParts(traces[i], methods)
             IN  /\ parts[1] = ThreadFrame(traces[i].thread_id)
                 /\ folded_stack =
                       Join(IF args.discard_thread THEN Tail(parts) ELSE parts, <<";">>)
    /\ (prog = "hprof" /\ pc \in {"counts", "flamegraph", "done"})
          => /\ DOMAIN stacks = DOMAIN DefaultStacks
             /\ \A id \in DOMAIN stacks :
                   LET default == DefaultStacks[id]
                       thread_id == BlockOf(id).thread_id
                   IN  IF thread_id = None THEN stacks[id] = default
                       ELSE /\ default[Len(default)] = HprofThreadFrame(thread_id[1])
                            /\ stacks[id] = IF args.discard_thread THEN Front(default)
                                            ELSE default

C7_Witness ==
    /\ FoldedKept /\ args.discard_thread
    /\ Len(traces[i].frames) = 2
    /\ folded_stack # <<>>

C7_WitnessHprof ==
    /\ prog = "hprof" /\ pc = "done" /\ args.discard_thread
    /\ \E id \in DOMAIN stacks : BlockOf(id).thread_id # None

----------------------------------------------------------------------------
(* C8: on a marker other than 0, 1, 2, 21 and 3 the HPL decoder fails with *)
(* an error that reports the marker and the offset of the marker byte, and *)
(* nothing is returned to main.                                            *)

C8_OffsetOfMarker ==
    [][(prog = "hpl" /\ pc = "decode" /\ pc' = "error" /\ err'.kind = "Exception")
          => (err'.offset = fh[1] /\ err'.arg \notin {0, 1, 2, 21, 3}
              /\ i' = 0 /\ out' = <<>>)]_vars

----------------------------------------------------------------------------
(* C9: a run that decodes no trace (HPL, HPROF) or finds no sample count   *)
(* (HPROF) ends in a fatal error, never in a successful exit.              *)

C9_EmptyResultIsFatal ==
    /\ HplDone => traces # <<>>
    /\ (prog = "hprof" /\ pc = "done") => (DOMAIN stacks # {} /\ counts # <<>>)

----------------------------------------------------------------------------
(* C10: the HPL output is in strictly increasing order of the folded       *)
(* stack, so no stack is on two lines; every count is at least 1; and the  *)
(* output is the same when two neighbouring traces of the input change     *)
(* places (hence for any order of the same traces).                        *)

Swap(ts, k) ==
    [j \in 1..Len(ts) |-> IF j = k THEN ts[k + 1] ELSE IF j = k + 1 THEN ts[k] ELSE ts[j]]

\* the aggregation map of the loop over a trace list, from trace k on
RECURSIVE FoldAll(_, _, _)
FoldAll(ts, k, acc) ==
    IF k > Len(ts) THEN acc
    ELSE LET r == FormatFrames(ts[k], 1, <<>>)
         IN  FoldAll(ts, k + 1,
                     IF r.end = "kept"
                     THEN Increment(acc, Join(StackOf(ts[k], r.frames), <<";">>))
                     ELSE acc)

\* C10: the output lines are strictly increasing, their counts at least 1, and the
\* same after two neighbouring traces change places
C10_SortedUniquePositive ==
    HplDone =>
        /\ \A j \in 1..(Len(out) - 1) : StrLess(KeyOf(out[j]), KeyOf(out[j + 1]))
        /\ \A j \in 1..Len(out) : CountOf(out[j]) >= 1
        /\ \A k \in 1..(Len(traces) - 1) :
              out = Lines(FoldAll(Swap(traces, k), 1, EmptyDict))

C10_Witness ==
    /\ HplDone
    /\ Len(out) >= 3
    /\ traces[1].thread_id = 2 /\ traces[2].thread_id = 10
    /\ \E j \in 1..Len(out) : CountOf(out[j]) >= 1

----------------------------------------------------------------------------
(* C11: to_flamegraph prints one line '<stack> <count>' for every trace id *)
(* of the sample counts, in the order the ids are first counted, each from *)
(* the id's own stack reversed and joined with ';' and the id's own count, *)
(* two ids with the same stack keeping a line each; when a counted id has  *)
(* no stack the run ends in a KeyError on the first such id and prints     *)
(* nothing.                                                                *)

\* the rows of the CPU SAMPLES section of the dump
SampleRows == IF content[1].samples = None THEN <<>> ELSE content[1].samples[1]

\* the trace ids of the rows, each once, in the order they first appear
CountedIds ==
    LET rows == SampleRows
        first == SelectSeq([k \in 1..Len(rows) |-> <<rows[k].trace, k>>],
                           LAMBDA p : \A j \in 1..(p[2] - 1) : rows[j].trace # p[1])
    IN  [k \in 1..Len(first) |-> first[k][1]]

\* the count of the last row of a trace id
OwnCount(id) ==
    SampleRows[MaxOf({k \in 1..Len(SampleRows) : SampleRows[k].trace = id})].count

UncountedStacks == {k \in 1..Len(CountedIds) : CountedIds[k] \notin DOMAIN stacks}

HprofPrinting == prog = "hprof" /\ pc \in {"done", "error"} /\ counts # <<>>

\* C11: one line per counted trace id, from its own stack and count; a counted id
\* without a stack is a KeyError and nothing is printed
C11_OneLinePerCountedTrace ==
    HprofPrinting =>
        IF UncountedStacks = {}
        THEN /\ pc = "done"
             /\ Len(out) = Len(CountedIds)
             /\ \A k \in 1..Len(out) :
                   out[k] = Join(Reverse(stacks[CountedIds[k]]), <<";">>)
                                \o <<" ">> \o OwnCount(CountedIds[k])
        ELSE /\ pc = "error"
             /\ err.kind = "KeyError"
             /\ err.arg = CountedIds[MinOf(UncountedStacks)]
             /\ out = <<>>

\* two trace ids with the same stack: two lines
C11_Witness ==
    /\ prog = "hprof" /\ pc = "done"
    /\ Len(out) = 2
    /\ KeyOf(out[1]) = KeyOf(out[2])
    /\ Len(stacks[CountedIds[1]]) >= 2

----------------------------------------------------------------------------
(* C12: the HPROF converter tests the header first and the tracing marker  *)
(* second: a dump without the header ends in 'not an hprof file' whatever  *)
(* else it holds, a dump with the header and the tracing marker ends in    *)
(* 'tracing is not supported', only a dump passing both reaches the        *)
(* extraction of stacks and counts, and a failed test prints nothing.      *)

C12_HeaderThenTracing ==
    prog = "hprof" =>
        LET c == content[1]
            unread == stacks = EmptyDict /\ counts = <<>> /\ out = <<>>
        IN  /\ ~header_match(c) =>
                  /\ pc = "header" \/ (pc = "error" /\ err.kind = "exit: not an hprof file")
                  /\ unread
            /\ (header_match(c) /\ is_tracing(c)) =>
                  /\ \/ pc \in {"header", "tracing"}
                     \/ pc = "error" /\ err.kind = "exit: CPU tracing is not supported"
                  /\ unread
            /\ pc \in {"stacks", "counts", "flamegraph", "done"} =>
                  (header_match(c) /\ ~is_tracing(c))

\* a dump that fails both tests is reported for its header
C12_Witness ==
    /\ prog = "hprof" /\ pc = "error"
    /\ ~header_match(content[1]) /\ is_tracing(content[1])
    /\ content[1].blocks # <<>> /\ content[1].samples # None
    /\ err.kind = "exit: not an hprof file"

----------------------------------------------------------------------------
(* C13: every trace a trace-start record with frame_count <= 0 has left in *)
(* the trace list has frame_count 1 and starts with a synthetic frame (no  *)
(* bci, no line number) whose method id is a key of the Method table once  *)
(* decoding has ended.                                                     *)

\* decoding has ended and returned to main
Decoded == prog = "hpl" /\ pc \in {"fold", "done", "error"} /\ ~DecodeFailed

\* the traces that were opened with a synthetic frame
AgentTraces ==
    {k \in 1..Len(traces) : traces[k].frames # <<>> /\ traces[k].frames[1].bci = None}

\* C13: the synthetic frame of every agent-error trace refers to a declared method
C13_AgentTraceFormattable ==
    Decoded =>
        \A k \in AgentTraces :
            /\ traces[k].frame_count = 1
            /\ traces[k].frames[1].line_no = None
            /\ traces[k].frames[1].method_id \in DOMAIN methods

----------------------------------------------------------------------------
(* C14: a trace-start record whose frame_count is <= 0 and beyond the      *)
(* known agent errors never ends the run: the decoder goes on, with the    *)
(* trace appended and a Method declared at frame_count - 1.                *)

C14_UnknownAgentErrorDecoded ==
    [][(prog = "hpl" /\ pc = "decode" /\ nread' = nread + 1 /\ err'.kind = "TypeError")
          => /\ pc' = "decode"
             /\ Len(traces') = Len(traces) + 1
             /\ err'.arg \in DOMAIN methods']_vars

----------------------------------------------------------------------------
(* C15: when decoding ends without a fatal error, every trace of the trace *)
(* list holds exactly frame_count frames.                                  *)

C15_FramesMatchFrameCount ==
    Decoded => \A k \in 1..Len(traces) : Len(traces[k].frames) = traces[k].frame_count

----------------------------------------------------------------------------
(* C16: once marker 0 is read decoding stops: on a whole file, what        *)
(* parse_hpl returns is what the records before the first marker 0 give,   *)
(* whatever follows the marker (an unknown marker, a record cut short);    *)
(* without a marker 0 the end of the file ends decoding with the records   *)
(* read so far.                                                            *)

FileRun == prog = "hpl" /\ hpl_file # None

\* the place of the first marker 0 of a file, one past its end if it has none
StopAt(records) ==
    LET ends == {k \in 1..Len(records) : ~IsCut(records[k]) /\ records[k].marker = 0}
    IN  IF ends = {} THEN Len(records) + 1 ELSE MinOf(ends)

BeforeEnd(records) == SubSeq(records, 1, StopAt(records) - 1)

Parsed(records) == parse_hpl(records, 1, <<>>, AgentMethods)

\* C16: the result is that of the records before the first marker 0, or of the
\* whole file if it has none
C16_EndMarkerStops ==
    (FileRun /\ pc # "decode") =>
        LET p == Parsed(BeforeEnd(hpl_file[1]))
        IN  IF p.raised THEN DecodeFailed
            ELSE /\ ~DecodeFailed
                 /\ traces = p.traces
                 /\ methods = p.methods
                 /\ nread = Len(BeforeEnd(hpl_file[1]))

\* a trace, marker 0, then an unknown marker and a record cut short
C16_Witness ==
    /\ FileRun /\ pc = "done"
    /\ LET f == hpl_file[1]
           e == StopAt(f)
       IN  /\ e >= 2 /\ e + 2 <= Len(f)
           /\ f[e + 1] \in {OtherRecord(marker) : marker \in Markers}
           /\ IsCut(f[e + 2])
    /\ out # <<>>

----------------------------------------------------------------------------
(* C17: the output is a function of the trace list and of the final Method *)
(* table: a symbol declaration that changes places with a neighbouring     *)
(* frame or trace-start record leaves both, hence the output, unchanged,   *)
(* and of the declarations of one method id the last of the file is the    *)
(* one every frame is formatted with.                                      *)

Declaration(record) == ~IsCut(record) /\ record.marker = 3

\* records k and k + 1 are a declaration and a frame or trace-start record
Movable(records, k) ==
    \/ Declaration(records[k]) /\ records[k + 1].marker \in {1, 2, 21}
    \/ Declaration(records[k + 1]) /\ records[k].marker \in {1, 2, 21}

LastDeclared(records, id) ==
    records[MaxOf({k \in 1..Len(records) :
                      Declaration(records[k]) /\ records[k].method_id = id})]

\* C17: moving a declaration over a neighbouring record changes neither the traces
\* nor the Method table; the last declaration of an id is the one in the table
C17_DeclarationPlaceIrrelevant ==
    (FileRun /\ pc = "done") =>
        LET f == BeforeEnd(hpl_file[1])
        IN  /\ out = Lines(FoldAll(traces, 1, EmptyDict))
            /\ \A k \in 1..(Len(f) - 1) :
                  Movable(f, k) =>
                      LET q == Parsed(Swap(f, k))
                      IN  ~q.raised /\ q.traces = traces /\ q.methods = methods
            /\ \A k \in 1..Len(f) :
                  Declaration(f[k]) =>
                      LET d == LastDeclared(f, f[k].method_id)
                      IN  methods[d.method_id] =
                              Method(d.method_id, d.file_name, d.class_name, d.method_name)

\* a frame, then two declarations of its method id that differ
C17_Witness ==
    /\ FileRun /\ pc = "done"
    /\ LET f == hpl_file[1]
       IN  /\ Len(f) = 4
           /\ f[2].marker \in {2, 21}
           /\ Declaration(f[3]) /\ Declaration(f[4])
           /\ f[3].class_name # f[4].class_name
    /\ Len(out) = 1

====
